---- MODULE Spec2Model ----
(***************************************************************************)
(* A model of the dense matrix (MatrixFloat64 / MatrixBool), of its row    *)
(* Iterator and of the Sparse matrix in github.com/humilityai/matrix.      *)
(*                                                                         *)
(* The matrix is a Go slice over a backing array: `data` holds the         *)
(* len(m.data) visible elements, `cap` is cap(m.data).  Go checks an index *)
(* expression m.data[i] against the length and a slice expression          *)
(* m.data[a:b] against the capacity; a failed check is a run-time panic,   *)
(* recorded here as the outcome "panic" of the call.  Buffer indices are   *)
(* 0-based as in the source; the TLA+ sequence `data` is 1-based, so the   *)
(* element at buffer index i is data[i + 1].                               *)
(***************************************************************************)
EXTENDS Integers, Sequences, FiniteSets, TLC

\* Bounds of the model.
MaxCols == 2    \* New(columns) is called with columns in 0..MaxCols
MaxLen == 4     \* AddRow is not called once the buffer would exceed MaxLen
MaxVal == 1     \* element values are 0..MaxVal
MaxSlack == 2   \* append may allocate up to MaxSlack elements of spare capacity
MaxPast == 1    \* Next is not called once the cursor is MaxPast beyond Rows()
MaxIdx == 1     \* Sparse rows and columns written are 0..MaxIdx
MaxCells == 2   \* at most MaxCells coordinates of the Sparse matrix are written

VARIABLES
    data,       \* MatrixFloat64.data / MatrixBool.data: the visible elements
    cap,        \* cap(m.data): the size of the backing array
    columns,    \* MatrixFloat64.columns / MatrixBool.columns
    iter,       \* one Iterator over the matrix: its cursor `row`, and bookkeeping
    call,       \* the call that has just returned: operation, arguments, outcome and
                \* the matrix before it; "idle" between calls
    C,          \* Sparse.C
    Data,       \* Sparse.Data: map[int]map[int]float64, a function of functions
    stored,     \* history: coordinates <<i, j>> written so far -> value last stored
    scall       \* the Sparse call that has just returned, as `call`

vars == <<data, cap, columns, iter, call, C, Data, stored, scall>>

\* The variables of the dense matrix and of the Sparse matrix.
dense == <<data, cap, columns, iter, call>>

sparse == <<C, Data, stored, scall>>

Values == 0..MaxVal

\* The Func arguments handed to ApplyToMatrix / ApplyToColumns.
Funcs == {"succ", "zero"}

Apply(f, v) == IF f = "succ" THEN (v + 1) % (MaxVal + 1) ELSE 0

\* Row arguments handed to AddRow on a matrix of cols columns: every row of
\* the right length, and rows of every other length from 0 to cols + 1 (AddRow
\* looks at nothing but the length of those).
RowArgs(cols) ==
    [1..cols -> Values]
        \cup {[i \in 1..n |-> v] : n \in 0..(cols + 1), v \in Values}

NoArg == [values |-> <<>>, value |-> 0, row |-> 0, column |-> 0, f |-> "none", set |-> {},
          amount |-> 0]

\* `seq` is a returned slice (nil is the empty one), `same` says that the
\* matrix returned is the receiver itself.
NoRet == [value |-> 0, ok |-> FALSE, start |-> 0, n |-> 0, outside |-> FALSE,
          seq |-> <<>>, same |-> FALSE]

Pre == [data |-> data, cap |-> cap, columns |-> columns]

NoIter == [live |-> FALSE, row |-> -1, clean |-> TRUE]

\* len(m.data) / m.columns; integer division by zero panics, so callers test
\* cols = 0 first.
rowsOf(d, cols) == Len(d) \div cols

\* The element at (row, column): m.data[row*m.columns+column].
Cell(d, cols, row, column) == d[row * cols + column + 1]

\* checkRowAndColumnBounds.
checkRowAndColumnBounds(d, cols, row, column) ==
    IF cols = 0 THEN "panic"
    ELSE IF row > rowsOf(d, cols) \/ row < 0 THEN "ErrRowIndex"
    ELSE IF column < 0 \/ column > cols THEN "ErrColumnIndex"
    ELSE "nil"

\* The caller is single-threaded: it makes a call, holds its outcome, and
\* drops it before the next call.
Idle == [op |-> "idle", arg |-> NoArg, err |-> "nil", ret |-> NoRet,
         pre |-> [data |-> <<>>, cap |-> 0, columns |-> 0]]

Return ==
    /\ call # Idle
    /\ call' = Idle
    /\ UNCHANGED <<data, cap, columns, iter>>

\* NewMatrixFloat64 / NewMatrixBool: make(slice, 0) and the column count.
Init ==
    /\ columns \in 0..MaxCols
    /\ data = <<>>
    /\ cap = 0
    /\ iter = NoIter
    /\ call = [op |-> "New", arg |-> NoArg, err |-> "nil", ret |-> NoRet,
               pre |-> [data |-> <<>>, cap |-> 0, columns |-> columns]]
    /\ C = 0
    /\ Data = <<>>
    /\ stored = <<>>
    /\ scall = [op |-> "NewSparse", i |-> 0, j |-> 0, value |-> 0, err |-> "nil",
                ret |-> 0, row |-> <<>>, pre |-> [C |-> 0, Data |-> <<>>]]

\* Any change of the matrix ends the "not modified during the pass" of iter.
Touch(it, d, cols) ==
    IF it.live THEN [it EXCEPT !.clean = it.clean /\ d = data /\ cols = columns] ELSE it

\* A size test that refuses only the rows that are too long.
RowSizeMismatchShort(values, cols) == Len(values) > cols

\* len(row) != m.columns
RowSizeMismatch(values, cols) == Len(values) # cols

\* An append that puts the row before the buffer.
AppendRowFront(d, values) == values \o d

\* append(m.data, row...)
AppendRow(d, values) == d \o values

\* The capacities append may leave: unchanged when the row fits, otherwise a
\* new backing array of at least the needed length.
GrowCaps(c, need) == IF need <= c THEN {c} ELSE need..(need + MaxSlack)

AddRow(values) ==
    /\ call = Idle
    /\ IF RowSizeMismatch(values, columns)
       THEN /\ call' = [op |-> "AddRow", arg |-> [NoArg EXCEPT !.values = values],
                        err |-> "ErrRowSize", ret |-> NoRet, pre |-> Pre]
            /\ UNCHANGED <<data, cap, columns, iter>>
       ELSE /\ Len(data) + Len(values) <= MaxLen
            /\ data' = AppendRow(data, values)
            /\ cap' \in GrowCaps(cap, Len(data) + Len(values))
            /\ iter' = Touch(iter, data', columns)
            /\ call' = [op |-> "AddRow", arg |-> [NoArg EXCEPT !.values = values],
                        err |-> "nil", ret |-> NoRet, pre |-> Pre]
            /\ UNCHANGED columns

\* RowIndices: the buffer indices of the cursor's row, a negative cursor clamped to 0.
RowIndices(row, cols) ==
    LET r == IF row < 0 THEN 0 ELSE row
    IN  [j \in 1..cols |-> r * cols + j - 1]

\* The body of AppendColumn's loop for the iterator rows row, row+1, ...: Next()
\* lets the cursor through while it is not greater than Rows(); each index of
\* the row is read from m.data and written to the new buffer at the same
\* index, then defaultValue is written after the row's last index.
RECURSIVE AppendColumnLoop(_, _, _, _, _)
AppendColumnLoop(old, new, cols, row, defaultValue) ==
    IF row > rowsOf(old, cols) THEN [err |-> "nil", data |-> new]
    ELSE LET indices == RowIndices(row, cols)
             lastIndex == indices[Len(indices)]
         IN  IF \E k \in 1..Len(indices) : indices[k] >= Len(old) \/ indices[k] >= Len(new)
             THEN [err |-> "panic", data |-> new]
             ELSE IF lastIndex + 1 >= Len(new)
             THEN [err |-> "panic", data |-> new]
             ELSE AppendColumnLoop(old,
                      [i \in 1..Len(new) |->
                          IF i = lastIndex + 2 THEN defaultValue
                          ELSE IF \E k \in 1..Len(indices) : indices[k] + 1 = i THEN old[i]
                          ELSE new[i]],
                      cols, row + 1, defaultValue)

AppendColumn(defaultValue) ==
    LET r == IF columns = 0 THEN [err |-> "panic", data |-> data]
             ELSE AppendColumnLoop(data,
                      [i \in 1..(Len(data) + rowsOf(data, columns)) |-> 0],
                      columns, 0, defaultValue)
    IN  /\ call = Idle
        /\ call' = [op |-> "AppendColumn", arg |-> [NoArg EXCEPT !.value = defaultValue],
                    err |-> r.err, ret |-> NoRet, pre |-> Pre]
        /\ IF r.err = "nil"
           THEN /\ columns' = columns + 1
                /\ data' = r.data
                /\ cap' = Len(r.data)
           ELSE UNCHANGED <<data, cap, columns>>
        /\ iter' = Touch(iter, data', columns')

\* An end of the deleted block that falls one element short.
RowEndShort(start, cols) == start + cols - 1

\* RemoveRow's end of the deleted block: start + m.columns.
RowEnd(start, cols) == start + cols

\* append(m.data[:start], m.data[end:]...)
DeleteBlock(d, start, end) == SubSeq(d, 1, start) \o SubSeq(d, end + 1, Len(d))

RemoveRow(row) ==
    LET start == row * columns
        end == RowEnd(start, columns)
        err == IF columns = 0 THEN "panic"
               ELSE IF row < 0 \/ row > rowsOf(data, columns) THEN "ErrRowIndex"
               ELSE IF end > Len(data) THEN "panic"
               ELSE "nil"
    IN  /\ call = Idle
        /\ call' = [op |-> "RemoveRow", arg |-> [NoArg EXCEPT !.row = row],
                    err |-> err, ret |-> NoRet, pre |-> Pre]
        /\ data' = IF err = "nil" THEN DeleteBlock(data, start, end) ELSE data
        /\ iter' = Touch(iter, data', columns)
        /\ UNCHANGED <<cap, columns>>

UpdateValue(value, row, column) ==
    LET chk == checkRowAndColumnBounds(data, columns, row, column)
        index == row * columns + column
        err == IF chk # "nil" THEN chk
               ELSE IF index >= Len(data) THEN "panic"
               ELSE "nil"
    IN  /\ call = Idle
        /\ call' = [op |-> "UpdateValue",
                    arg |-> [NoArg EXCEPT !.value = value, !.row = row, !.column = column],
                    err |-> err, ret |-> NoRet, pre |-> Pre]
        /\ data' = IF err = "nil" THEN [data EXCEPT ![index + 1] = value] ELSE data
        /\ iter' = Touch(iter, data', columns)
        /\ UNCHANGED <<cap, columns>>

GetValue(row, column) ==
    LET chk == checkRowAndColumnBounds(data, columns, row, column)
        index == row * columns + column
        err == IF chk # "nil" THEN chk
               ELSE IF index >= Len(data) THEN "panic"
               ELSE "nil"
    IN  /\ call = Idle
        /\ call' = [op |-> "GetValue",
                    arg |-> [NoArg EXCEPT !.row = row, !.column = column],
                    err |-> err,
                    ret |-> IF err = "nil" THEN [NoRet EXCEPT !.value = data[index + 1]]
                            ELSE NoRet,
                    pre |-> Pre]
        /\ UNCHANGED <<data, cap, columns, iter>>

\* GetRow's result: the error of the bounds check, a panic when the slice
\* expression m.data[start : start+m.columns] ends beyond the capacity, or the
\* window [start, start+n) over the backing array; `outside` says that the
\* window is not within the len(m.data) visible elements.
GetRowResult(d, c, cols, row) ==
    LET chk == checkRowAndColumnBounds(d, cols, row, 0)
        start == row * cols
    IN  IF chk # "nil" THEN [err |-> chk, ret |-> NoRet]
        ELSE IF start + cols > c THEN [err |-> "panic", ret |-> NoRet]
        ELSE [err |-> "nil",
              ret |-> [NoRet EXCEPT !.start = start, !.n = cols,
                                    !.outside = start + cols > Len(d)]]

GetRow(row) ==
    LET r == GetRowResult(data, cap, columns, row)
    IN  /\ call = Idle
        /\ call' = [op |-> "GetRow", arg |-> [NoArg EXCEPT !.row = row],
                    err |-> r.err, ret |-> r.ret, pre |-> Pre]
        /\ UNCHANGED <<data, cap, columns, iter>>

Rows ==
    /\ call = Idle
    /\ call' = [op |-> "Rows", arg |-> NoArg,
                err |-> IF columns = 0 THEN "panic" ELSE "nil",
                ret |-> IF columns = 0 THEN NoRet
                        ELSE [NoRet EXCEPT !.value = rowsOf(data, columns)],
                pre |-> Pre]
    /\ UNCHANGED <<data, cap, columns, iter>>

Columns ==
    /\ call = Idle
    /\ call' = [op |-> "Columns", arg |-> NoArg, err |-> "nil",
                ret |-> [NoRet EXCEPT !.value = columns], pre |-> Pre]
    /\ UNCHANGED <<data, cap, columns, iter>>

\* The row starts i visited by `for i := 0; i+m.columns < len(m.data)-1;
\* i += m.columns`, the loop of GetColumnData, MaxSum, MinSum, Mode and Sample.
RECURSIVE ScanFrom(_, _, _)
ScanFrom(d, cols, i) ==
    IF i + cols < Len(d) - 1 THEN <<i>> \o ScanFrom(d, cols, i + cols) ELSE <<>>

\* GetColumnData's test of its argument.
ColumnOutOfRange(column, cols) == column < 0 \/ column >= cols

\* data = append(data, m.data[i+column]) for every row start visited.
ColumnData(d, cols, column) ==
    LET starts == ScanFrom(d, cols, 0)
    IN  [k \in 1..Len(starts) |-> d[starts[k] + column + 1]]

GetColumnData(column) ==
    /\ call = Idle
    /\ call' = [op |-> "GetColumnData", arg |-> [NoArg EXCEPT !.column = column],
                err |-> IF ColumnOutOfRange(column, columns) THEN "ErrColumnIndex"
                        ELSE "nil",
                ret |-> IF ColumnOutOfRange(column, columns) THEN NoRet
                        ELSE [NoRet EXCEPT !.seq = ColumnData(data, columns, column)],
                pre |-> Pre]
    /\ UNCHANGED <<data, cap, columns, iter>>

\* m.data[i : i+m.columns], the row that starts at offset i.
RowAt(d, cols, i) == SubSeq(d, i + 1, i + cols)

\* sam.SliceFloat64.Sum: the sum of the elements.
RECURSIVE Sum(_)
Sum(s) == IF s = <<>> THEN 0 ELSE Head(s) + Sum(Tail(s))

\* rand.Intn(100) draws from 0..RandRange-1.
RandRange == 100

\* The rows Sample can take from the rows it visits: a row is taken when
\* float64(rand.Intn(100)) < percentage, percentage = amount / len * 100.  Some
\* draw takes the row iff 0 < percentage, some draw leaves it iff
\* RandRange - 1 >= percentage.
SamplePicks(d, cols, amount) ==
    LET n == Len(ScanFrom(d, cols, 0))
    IN  {pick \in [1..n -> BOOLEAN] :
            \A k \in 1..n :
                IF pick[k] THEN amount > 0
                ELSE (RandRange - 1) * Len(d) >= amount * RandRange}

\* sample.AddRow(row) for the visited rows that are taken, in visiting order.
RECURSIVE SampleLoop(_, _, _, _, _)
SampleLoop(d, cols, starts, pick, k) ==
    IF k > Len(starts) THEN <<>>
    ELSE (IF pick[k] THEN RowAt(d, cols, starts[k]) ELSE <<>>)
         \o SampleLoop(d, cols, starts, pick, k + 1)

\* Sample(amount): a new empty matrix for amount < 0, the receiver itself for
\* amount >= len(m.data), else a new matrix of randomly taken rows.
Sample(amount) ==
    /\ call = Idle
    /\ \E pick \in (IF amount < 0 \/ amount >= Len(data) THEN {<<>>}
                    ELSE SamplePicks(data, columns, amount)) :
           call' = [op |-> "Sample", arg |-> [NoArg EXCEPT !.amount = amount],
                    err |-> "nil",
                    ret |-> IF amount < 0 THEN NoRet
                            ELSE IF amount >= Len(data) THEN [NoRet EXCEPT !.same = TRUE]
                            ELSE [NoRet EXCEPT !.seq =
                                     SampleLoop(data, columns, ScanFrom(data, columns, 0),
                                                pick, 1)],
                    pre |-> Pre]
    /\ UNCHANGED <<data, cap, columns, iter>>

\* s.Sum() > maxSum with maxSum := math.SmallestNonzeroFloat64, which is never
\* assigned again; no value lies between 0 and the smallest nonzero float.
AboveMaxSum(s) == s > 0

\* s.Sum() < minSum with minSum := math.MaxFloat64, which is never assigned
\* again; every sum of the model is below it.
BelowMinSum(s) == TRUE

\* The row kept by the loop of MaxSum: `max = s` for every visited row that
\* passes the test, so the last such row; nil when there is none.
RECURSIVE MaxSumLoop(_, _, _, _, _)
MaxSumLoop(d, cols, starts, k, max) ==
    IF k > Len(starts) THEN max
    ELSE LET s == RowAt(d, cols, starts[k])
         IN  MaxSumLoop(d, cols, starts, k + 1, IF AboveMaxSum(Sum(s)) THEN s ELSE max)

MaxSum ==
    /\ call = Idle
    /\ call' = [op |-> "MaxSum", arg |-> NoArg, err |-> "nil",
                ret |-> [NoRet EXCEPT !.seq =
                            MaxSumLoop(data, columns, ScanFrom(data, columns, 0), 1, <<>>)],
                pre |-> Pre]
    /\ UNCHANGED <<data, cap, columns, iter>>

\* The row kept by the loop of MinSum.
RECURSIVE MinSumLoop(_, _, _, _, _)
MinSumLoop(d, cols, starts, k, min) ==
    IF k > Len(starts) THEN min
    ELSE LET s == RowAt(d, cols, starts[k])
         IN  MinSumLoop(d, cols, starts, k + 1, IF BelowMinSum(Sum(s)) THEN s ELSE min)

MinSum ==
    /\ call = Idle
    /\ call' = [op |-> "MinSum", arg |-> NoArg, err |-> "nil",
                ret |-> [NoRet EXCEPT !.seq =
                            MinSumLoop(data, columns, ScanFrom(data, columns, 0), 1, <<>>)],
                pre |-> Pre]
    /\ UNCHANGED <<data, cap, columns, iter>>

\* The loop of Mode.  `uniques` is declared and ranged over but nothing is ever
\* appended to it, so it is the empty slice in every iteration: no visited row
\* finds an equal earlier one and each gets uniqueCounts[i] = 1.
RECURSIVE ModeLoop(_, _, _, _, _, _)
ModeLoop(d, cols, starts, k, uniques, uniqueCounts) ==
    IF k > Len(starts) THEN uniqueCounts
    ELSE LET i == starts[k]
             hits == {index \in {uniques[x] : x \in 1..Len(uniques)} :
                         RowAt(d, cols, i) = RowAt(d, cols, index)}
             bumped == [index \in DOMAIN uniqueCounts |->
                           IF index \in hits THEN uniqueCounts[index] + 1
                           ELSE uniqueCounts[index]]
             next == IF hits = {}
                     THEN [index \in DOMAIN bumped \cup {i} |->
                              IF index = i THEN 1 ELSE bumped[index]]
                     ELSE bumped
         IN  ModeLoop(d, cols, starts, k + 1, uniques, next)

\* uniqueCounts.MaxValue(): a key that holds the greatest value; the map is
\* ranged over in no fixed order, so any such key, and the zero key for the
\* empty map.
MaxValue(counts) ==
    IF DOMAIN counts = {} THEN {0}
    ELSE {k \in DOMAIN counts : \A o \in DOMAIN counts : counts[o] <= counts[k]}

\* Mode(): m.data[k : k+m.columns] for the key k of the greatest count; the
\* slice expression panics when k+columns exceeds the capacity, and on an
\* empty matrix with spare capacity it is a window outside the visible
\* elements, as in GetRow.
Mode ==
    /\ call = Idle
    /\ \E k \in MaxValue(ModeLoop(data, columns, ScanFrom(data, columns, 0), 1, <<>>,
                                  [x \in {} |-> 0])) :
           call' = [op |-> "Mode", arg |-> NoArg,
                    err |-> IF k + columns > cap THEN "panic" ELSE "nil",
                    ret |-> IF k + columns > cap THEN NoRet
                            ELSE IF k + columns > Len(data)
                            THEN [NoRet EXCEPT !.start = k, !.n = columns,
                                               !.outside = TRUE]
                            ELSE [NoRet EXCEPT !.start = k, !.n = columns,
                                               !.seq = RowAt(data, columns, k)],
                    pre |-> Pre]
    /\ UNCHANGED <<data, cap, columns, iter>>

\* Iterator(): a cursor before the first row.
Iterator ==
    /\ call = Idle
    /\ iter' = [live |-> TRUE, row |-> -1, clean |-> TRUE]
    /\ call' = [op |-> "Iterator", arg |-> NoArg, err |-> "nil", ret |-> NoRet,
                pre |-> Pre]
    /\ UNCHANGED <<data, cap, columns>>

\* Iterator.Next's test after i.row++: false when the cursor is past Rows().
NextOk(row, rows) == ~(row > rows)

\* Iterator.Next; call.arg.row is the cursor before the call.
IterNext ==
    /\ call = Idle
    /\ iter.live
    /\ iter.row <= (IF columns = 0 THEN 0 ELSE rowsOf(data, columns)) + MaxPast
    /\ iter' = [iter EXCEPT !.row = iter.row + 1]
    /\ call' = [op |-> "Next", arg |-> [NoArg EXCEPT !.row = iter.row],
                err |-> IF columns = 0 THEN "panic" ELSE "nil",
                ret |-> IF columns = 0 THEN NoRet
                        ELSE [NoRet EXCEPT
                                 !.ok = NextOk(iter.row + 1, rowsOf(data, columns))],
                pre |-> Pre]
    /\ UNCHANGED <<data, cap, columns>>

\* A membership test that selects every column.
ContainsAny(set, i) == TRUE

\* columns.Contains(i) in ApplyToColumns.
Contains(set, i) == i \in set

\* row.Set(i, f(row.Get(i))) for the selected positions i of the window
\* [start, start+n) of the backing array; positions at or beyond len(m.data)
\* lie in the spare capacity, which the model does not hold.
TransformRow(d, start, n, f, all, set) ==
    [k \in 1..Len(d) |->
        IF k - 1 >= start /\ k - 1 < start + n /\ (all \/ Contains(set, k - 1 - start))
        THEN Apply(f, d[k]) ELSE d[k]]

\* The loop `for i.Next() { row := i.Row(); ... }` of ApplyToMatrix (all = TRUE)
\* and ApplyToColumns (all = FALSE), with `row` the cursor after Next's
\* increment.  Row() is GetRow with the error dropped.
RECURSIVE ApplyLoop(_, _, _, _, _, _, _, _)
ApplyLoop(d, c, cols, row, f, all, set, outside) ==
    IF ~NextOk(row, rowsOf(d, cols))
    THEN [err |-> "nil", data |-> d, outside |-> outside]
    ELSE LET r == GetRowResult(d, c, cols, row)
         IN  IF r.err = "panic" THEN [err |-> "panic", data |-> d, outside |-> outside]
             ELSE IF r.err # "nil"
             THEN ApplyLoop(d, c, cols, row + 1, f, all, set, outside)
             ELSE ApplyLoop(TransformRow(d, r.ret.start, r.ret.n, f, all, set),
                            c, cols, row + 1, f, all, set, outside \/ r.ret.outside)

ApplyResult(f, all, set) ==
    IF columns = 0 THEN [err |-> "panic", data |-> data, outside |-> FALSE]
    ELSE ApplyLoop(data, cap, columns, 0, f, all, set, FALSE)

\* m.Iterator().ApplyToMatrix(f)
ApplyToMatrix(f) ==
    LET r == ApplyResult(f, TRUE, {})
    IN  /\ call = Idle
        /\ data' = r.data
        /\ call' = [op |-> "ApplyToMatrix", arg |-> [NoArg EXCEPT !.f = f],
                    err |-> r.err, ret |-> [NoRet EXCEPT !.outside = r.outside],
                    pre |-> Pre]
        /\ iter' = Touch(iter, data', columns)
        /\ UNCHANGED <<cap, columns>>

\* m.Iterator().ApplyToColumns(f, columns)
ApplyToColumns(f, set) ==
    LET r == ApplyResult(f, FALSE, set)
    IN  /\ call = Idle
        /\ data' = r.data
        /\ call' = [op |-> "ApplyToColumns", arg |-> [NoArg EXCEPT !.f = f, !.set = set],
                    err |-> r.err, ret |-> [NoRet EXCEPT !.outside = r.outside],
                    pre |-> Pre]
        /\ iter' = Touch(iter, data', columns)
        /\ UNCHANGED <<cap, columns>>

(***************************************************************************)
(* The Sparse matrix.  A Go map is a function; the empty map is the        *)
(* function of empty domain, <<>>.  float64 values are integers here: the  *)
(* values stored are 0..MaxVal and Increment adds 1 to them.               *)
(***************************************************************************)

\* m[k] = v on a map.
Put(m, k, v) == [x \in DOMAIN m \cup {k} |-> IF x = k THEN v ELSE m[x]]

\* m[k] read from a map of numbers: the zero value for a missing key.
MapGet(m, k) == IF k \in DOMAIN m THEN m[k] ELSE 0

\* A Set/Increment that starts every write from a new empty row.
RowOfFresh(D, i) == <<>>

\* row, ok := s.Data[i]; if !ok { s.Data[i] = make(map[int]float64); row =
\* s.Data[i] }: the row written by Set and Increment.
RowOf(D, i) == IF i \in DOMAIN D THEN D[i] ELSE <<>>

\* A column count that follows the last column written.
NewCLast(c, j) == j

\* if j > s.C { s.C = j }.
NewC(c, j) == IF j > c THEN j ELSE c

\* s.Data[i][j]: a missing row reads as the nil map, a missing key as 0.
Lookup(D, i, j) == IF i \in DOMAIN D THEN MapGet(D[i], j) ELSE 0

\* An increment that stores 1 whatever the value was.
BumpToOne(row, j) == Put(row, j, 1)

\* row[j]++.
Bump(row, j) == Put(row, j, MapGet(row, j) + 1)

SIdle == [op |-> "idle", i |-> 0, j |-> 0, value |-> 0, err |-> "nil", ret |-> 0,
          row |-> <<>>, pre |-> [C |-> 0, Data |-> <<>>]]

SPre == [C |-> C, Data |-> Data]

\* The coordinates a Set or Increment may write: those written before, and new
\* ones while fewer than MaxCells are written.
MayWrite(i, j) == <<i, j>> \in DOMAIN stored \/ Cardinality(DOMAIN stored) < MaxCells

SparseReturn ==
    /\ scall # SIdle
    /\ scall' = SIdle
    /\ UNCHANGED <<C, Data, stored>>

Set(i, j, value) ==
    /\ scall = SIdle
    /\ MayWrite(i, j)
    /\ C' = NewC(C, j)
    /\ Data' = Put(Data, i, Put(RowOf(Data, i), j, value))
    /\ stored' = Put(stored, <<i, j>>, value)
    /\ scall' = [SIdle EXCEPT !.op = "Set", !.i = i, !.j = j, !.value = value,
                              !.pre = SPre]

Get(i, j) ==
    /\ scall = SIdle
    /\ scall' = [SIdle EXCEPT !.op = "Get", !.i = i, !.j = j,
                              !.ret = Lookup(Data, i, j), !.pre = SPre]
    /\ UNCHANGED <<C, Data, stored>>

Increment(i, j) ==
    /\ scall = SIdle
    /\ MayWrite(i, j)
    /\ Lookup(Data, i, j) <= MaxVal
    /\ C' = NewC(C, j)
    /\ Data' = Put(Data, i, Bump(RowOf(Data, i), j))
    /\ stored' = Put(stored, <<i, j>>, MapGet(stored, <<i, j>>) + 1)
    /\ scall' = [SIdle EXCEPT !.op = "Increment", !.i = i, !.j = j, !.pre = SPre]

\* The orders in which `range row` can visit the keys of a map.
Orders(m) ==
    {o \in [1..Cardinality(DOMAIN m) -> DOMAIN m] :
        \A a, b \in DOMAIN o : a # b => o[a] # o[b]}

\* A GetRow that leaves out the columns whose value is 0.
ColumnValuesNonZero(row, o) ==
    SelectSeq([k \in DOMAIN o |-> [Column |-> o[k], Value |-> row[o[k]]]],
              LAMBDA cv : cv.Value # 0)

\* v = append(v, columnValue{Column: column, Value: val}) for the keys of the
\* row in the order o.
ColumnValues(row, o) == [k \in DOMAIN o |-> [Column |-> o[k], Value |-> row[o[k]]]]

\* Sparse.GetRow.
SparseGetRow(i) ==
    /\ scall = SIdle
    /\ IF i \notin DOMAIN Data
       THEN scall' = [SIdle EXCEPT !.op = "GetRow", !.i = i, !.err = "ErrRowIndex",
                                   !.pre = SPre]
       ELSE \E o \in Orders(Data[i]) :
                scall' = [SIdle EXCEPT !.op = "GetRow", !.i = i,
                                       !.row = ColumnValues(Data[i], o), !.pre = SPre]
    /\ UNCHANGED <<C, Data, stored>>

\* columnValues.Sum.
RECURSIVE ColumnValuesSum(_)
ColumnValuesSum(v) == IF v = <<>> THEN 0 ELSE Head(v).Value + ColumnValuesSum(Tail(v))

\* Sparse.Rows: len(s.Data).
SparseRows ==
    /\ scall = SIdle
    /\ scall' = [SIdle EXCEPT !.op = "Rows", !.ret = Cardinality(DOMAIN Data),
                              !.pre = SPre]
    /\ UNCHANGED <<C, Data, stored>>

\* Sparse.Columns: s.C.
SparseColumns ==
    /\ scall = SIdle
    /\ scall' = [SIdle EXCEPT !.op = "Columns", !.ret = C, !.pre = SPre]
    /\ UNCHANGED <<C, Data, stored>>

\* Row and column arguments of the reading calls: one past those written.
SIdx == 0..(MaxIdx + 1)

\* The calls on a Sparse matrix made by NewSparse.
NextSparse ==
    \/ SparseReturn /\ UNCHANGED dense
    \/ \E i \in 0..MaxIdx, j \in 0..MaxIdx, value \in Values :
           Set(i, j, value) /\ UNCHANGED dense
    \/ \E i \in SIdx, j \in SIdx : Get(i, j) /\ UNCHANGED dense
    \/ \E i \in 0..MaxIdx, j \in 0..MaxIdx : Increment(i, j) /\ UNCHANGED dense
    \/ \E i \in SIdx : SparseGetRow(i) /\ UNCHANGED dense
    \/ SparseRows /\ UNCHANGED dense
    \/ SparseColumns /\ UNCHANGED dense

\* NewSparse; the dense matrix stands still, with no columns.
InitSparse == Init /\ columns = 0

SpecSparse == InitSparse /\ [][NextSparse]_vars

\* Row and column arguments: every index from one below zero to one past the
\* row count / column count.
RowIdx == -1..((IF columns = 0 THEN 0 ELSE rowsOf(data, columns)) + 1)

ColIdx == -1..(columns + 1)

\* The calls on the matrix (ApplyToMatrix and ApplyToColumns run a whole pass
\* of an iterator of their own).
Next ==
    \/ Return /\ UNCHANGED sparse
    \/ \E values \in RowArgs(columns) : AddRow(values) /\ UNCHANGED sparse
    \/ \E v \in Values : AppendColumn(v) /\ UNCHANGED sparse
    \/ \E row \in RowIdx : RemoveRow(row) /\ UNCHANGED sparse
    \/ \E v \in Values, row \in RowIdx, column \in ColIdx : UpdateValue(v, row, column) /\ UNCHANGED sparse
    \/ \E row \in RowIdx, column \in ColIdx : GetValue(row, column) /\ UNCHANGED sparse
    \/ \E row \in RowIdx : GetRow(row) /\ UNCHANGED sparse
    \/ Rows /\ UNCHANGED sparse
    \/ Columns /\ UNCHANGED sparse
    \/ \E column \in ColIdx : GetColumnData(column) /\ UNCHANGED sparse
    \/ \E amount \in -1..(Len(data) + 1) : Sample(amount) /\ UNCHANGED sparse
    \/ MaxSum /\ UNCHANGED sparse
    \/ MinSum /\ UNCHANGED sparse
    \/ Mode /\ UNCHANGED sparse
    \/ \E f \in Funcs : ApplyToMatrix(f) /\ UNCHANGED sparse
    \/ \E f \in Funcs, set \in SUBSET (0..(columns - 1)) : ApplyToColumns(f, set) /\ UNCHANGED sparse

Spec == Init /\ [][Next]_vars

\* A caller stepping an Iterator by hand while rows come and go.
NextIter ==
    \/ Return /\ UNCHANGED sparse
    \/ \E values \in RowArgs(columns) : AddRow(values) /\ UNCHANGED sparse
    \/ \E row \in RowIdx : RemoveRow(row) /\ UNCHANGED sparse
    \/ Iterator /\ UNCHANGED sparse
    \/ IterNext /\ UNCHANGED sparse

SpecIter == Init /\ [][NextIter]_vars

(***************************************************************************)
(* The claims.  `call` holds the call that has just returned, with the     *)
(* matrix before it in call.pre, so a claim about one call is a predicate  *)
(* of the state the call leaves.                                           *)
(***************************************************************************)

\* Rows() before the call (for call.pre.columns >= 1).
PreRows == rowsOf(call.pre.data, call.pre.columns)

\* The value cell (row, column) held before the call.
PreCell(row, column) == Cell(call.pre.data, call.pre.columns, row, column)

\* C1: from New(columns) with columns >= 1, after any sequence of calls, failed
\* ones included, the buffer length is a multiple of Columns() and equals
\* Rows()*Columns().
C1_BufferIsWholeRows ==
    columns >= 1 =>
        /\ Len(data) % columns = 0
        /\ Len(data) = rowsOf(data, columns) * columns

\* C1 witness: a row has been removed from a matrix of two rows of two columns.
W1_RowRemoved ==
    /\ call.op = "RemoveRow"
    /\ call.err = "nil"
    /\ columns = 2
    /\ Len(call.pre.data) = 4
    /\ Len(data) = 2

\* C2: with columns >= 1, AddRow(values) with len(values) = columns returns no
\* error, Rows() grows by exactly one, every earlier row keeps its index and
\* contents, and the new last row equals values.
C2_AddRowAppends ==
    (/\ call.op = "AddRow"
     /\ call.pre.columns >= 1
     /\ Len(call.arg.values) = call.pre.columns)
    => /\ call.err = "nil"
       /\ columns = call.pre.columns
       /\ Len(data) = Len(call.pre.data) + columns
       /\ rowsOf(data, columns) = PreRows + 1
       /\ \A i \in 0..(PreRows - 1), j \in 0..(columns - 1) :
              Cell(data, columns, i, j) = PreCell(i, j)
       /\ \A j \in 0..(columns - 1) :
              Cell(data, columns, PreRows, j) = call.arg.values[j + 1]

\* C2 witness: the row <<0, 1>> added below the row <<1, 0>>.
W2_SecondRowAdded ==
    /\ call.op = "AddRow"
    /\ call.err = "nil"
    /\ call.pre.data = <<1, 0>>
    /\ call.arg.values = <<0, 1>>
    /\ data = <<1, 0, 0, 1>>

\* C3: AddRow(values) with len(values) # columns returns the row-size error and
\* leaves the buffer, Rows() and Columns() as they were.
C3_AddRowRejects ==
    (call.op = "AddRow" /\ Len(call.arg.values) # call.pre.columns)
    => /\ call.err = "ErrRowSize"
       /\ data = call.pre.data
       /\ columns = call.pre.columns
       /\ columns >= 1 => rowsOf(data, columns) = PreRows

\* C3 witness: a row of one value refused by a matrix of two columns holding a row.
W3_ShortRowRefused ==
    /\ call.op = "AddRow"
    /\ call.err = "ErrRowSize"
    /\ columns = 2
    /\ Len(call.arg.values) = 1
    /\ Len(data) = 2

\* C4: with columns >= 1 and any number of rows r, AppendColumn(v) completes
\* without an access outside a buffer's bounds; afterwards Columns() is one
\* greater, Rows() is still r, and the buffer length is r*(columns+1).
C4_AppendColumnCompletes ==
    (call.op = "AppendColumn" /\ call.pre.columns >= 1)
    => /\ call.err = "nil"
       /\ columns = call.pre.columns + 1
       /\ rowsOf(data, columns) = PreRows
       /\ Len(data) = PreRows * (call.pre.columns + 1)

\* Cell (row, column) of the matrix as it is now exists and holds v.
Holds(row, column, v) ==
    /\ row * columns + column < Len(data)
    /\ Cell(data, columns, row, column) = v

\* C5: after AppendColumn(v) on a matrix of r rows and c columns, every cell
\* (i, j) with i < r and j < c holds what it held before, and every cell (i, c)
\* holds v.
C5_AppendColumnKeepsCells ==
    (call.op = "AppendColumn" /\ call.pre.columns >= 1)
    => \A i \in 0..(PreRows - 1) :
           /\ \A j \in 0..(call.pre.columns - 1) : Holds(i, j, PreCell(i, j))
           /\ Holds(i, call.pre.columns, call.arg.value)

\* C6: with columns >= 1, GetRow, GetValue and UpdateValue answer every row
\* outside [0, Rows()) with the row-index error and, for a row inside, every
\* column outside [0, Columns()) with the column-index error; none faults and
\* none reaches the buffer outside [0, len(data)).
C6_BoundsErrors ==
    (call.op \in {"GetRow", "GetValue", "UpdateValue"} /\ call.pre.columns >= 1)
    => /\ (call.arg.row < 0 \/ call.arg.row >= PreRows) => call.err = "ErrRowIndex"
       /\ (/\ call.op # "GetRow"
           /\ call.arg.row >= 0 /\ call.arg.row < PreRows
           /\ (call.arg.column < 0 \/ call.arg.column >= call.pre.columns))
          => call.err = "ErrColumnIndex"
       /\ call.err # "panic"
       /\ ~call.ret.outside

\* C7: for every column count >= 0, zero included, the matrix New returns
\* answers Columns() with that count and Rows() with 0, without a fault.
C7_NewIsEmpty ==
    (call.pre.data = <<>> /\ call.pre.cap = 0)
    => /\ call.op = "Columns" => (call.err = "nil" /\ call.ret.value = columns)
       /\ call.op = "Rows" => (call.err = "nil" /\ call.ret.value = 0)

\* C8: on a matrix of r rows that is not modified during the pass, Next() on a
\* fresh iterator moves the cursor forward by one and returns true exactly
\* while the cursor is on a row in [0, r): true r times, then false; and
\* RowIndices() on a visited row is [row*columns, (row+1)*columns), all below
\* the buffer length.
C8_NextVisitsEachRowOnce ==
    (call.op = "Next" /\ iter.clean /\ columns >= 1)
    => /\ call.err = "nil"
       /\ iter.row = call.arg.row + 1
       /\ call.ret.ok <=> iter.row < rowsOf(data, columns)
       /\ call.ret.ok =>
              \A k \in 1..columns :
                  /\ RowIndices(iter.row, columns)[k] = iter.row * columns + k - 1
                  /\ RowIndices(iter.row, columns)[k] < Len(data)

\* C9: with columns >= 1 and any number of rows, ApplyToMatrix(f) on a fresh
\* iterator ends without touching the buffer outside [0, len(data)); every cell
\* then holds f of its old value, f applied once; Rows() and Columns() are as
\* before.
C9_ApplyToMatrixMapsEveryCell ==
    (call.op = "ApplyToMatrix" /\ call.pre.columns >= 1)
    => /\ call.err = "nil"
       /\ ~call.ret.outside
       /\ columns = call.pre.columns
       /\ Len(data) = Len(call.pre.data)
       /\ \A k \in 1..Len(data) : data[k] = Apply(call.arg.f, call.pre.data[k])

\* C10: ApplyToColumns(f, S) with S within [0, columns) on a fresh iterator
\* leaves every cell (i, j) with j not in S as it was and sets every cell
\* (i, j) with j in S to f of its old value, in every row, the last included.
C10_ApplyToColumnsFrame ==
    (call.op = "ApplyToColumns" /\ call.pre.columns >= 1)
    => /\ columns = call.pre.columns
       /\ Len(data) = Len(call.pre.data)
       /\ \A i \in 0..(PreRows - 1), j \in 0..(columns - 1) :
              Cell(data, columns, i, j) =
                  IF j \in call.arg.set THEN Apply(call.arg.f, PreCell(i, j))
                  ELSE PreCell(i, j)

\* C10 witness: the pass over two rows of two columns has returned, having
\* replaced column 0 alone by its successor.
W10_FirstColumnMapped ==
    /\ call.op = "ApplyToColumns"
    /\ call.err = "nil"
    /\ call.arg.set = {0}
    /\ call.arg.f = "succ"
    /\ call.pre.data = <<0, 1, 1, 1>>
    /\ data = <<1, 1, 0, 1>>
    /\ columns = 2

\* C11: on a matrix of r rows, GetColumnData(column) with column in
\* [0, columns) returns r values, the i-th being cell (i, column), in row
\* order; with column < 0 or column >= columns it returns the column-index
\* error.
C11_GetColumnDataIsTheColumn ==
    call.op = "GetColumnData"
    => IF call.arg.column < 0 \/ call.arg.column >= columns
       THEN call.err = "ErrColumnIndex"
       ELSE /\ call.err = "nil"
            /\ Len(call.ret.seq) = rowsOf(data, columns)
            /\ \A i \in 0..(rowsOf(data, columns) - 1) :
                   call.ret.seq[i + 1] = Cell(data, columns, i, call.arg.column)

\* C12: on a matrix of r rows and columns >= 1, RemoveRow(row) with row in
\* [0, r) returns no error, leaves r - 1 rows, keeps rows [0, row) and moves
\* every row i > row to index i - 1 unchanged; with row < 0 or row >= r it
\* returns the row-index error without a fault and leaves the matrix as it was.
C12_RemoveRowShiftsRows ==
    (call.op = "RemoveRow" /\ call.pre.columns >= 1)
    => IF call.arg.row >= 0 /\ call.arg.row < PreRows
       THEN /\ call.err = "nil"
            /\ columns = call.pre.columns
            /\ Len(data) = Len(call.pre.data) - columns
            /\ \A i \in 0..(PreRows - 2), j \in 0..(columns - 1) :
                   Cell(data, columns, i, j) =
                       PreCell(IF i < call.arg.row THEN i ELSE i + 1, j)
       ELSE /\ call.err = "ErrRowIndex"
            /\ data = call.pre.data
            /\ columns = call.pre.columns

\* C17: whenever UpdateValue(v, row, column) returns no error, GetValue(row,
\* column) then returns v, every cell of every other row holds what it held
\* before, and Rows() and Columns() are unchanged.
C17_UpdateValueTouchesOneRow ==
    (call.op = "UpdateValue" /\ call.err = "nil")
    => /\ columns = call.pre.columns
       /\ Len(data) = Len(call.pre.data)
       /\ checkRowAndColumnBounds(data, columns, call.arg.row, call.arg.column) = "nil"
       /\ call.arg.row * columns + call.arg.column < Len(data)
       /\ Cell(data, columns, call.arg.row, call.arg.column) = call.arg.value
       /\ \A i \in 0..(PreRows - 1), j \in 0..(columns - 1) :
              i # call.arg.row => Cell(data, columns, i, j) = PreCell(i, j)

\* C16: Sample(n) with n < 0 returns an empty matrix; Sample(n) with n equal
\* to or greater than the number of rows of the matrix returns the matrix
\* itself.
C16_SampleReturnsOriginal ==
    (call.op = "Sample" /\ columns >= 1)
    => /\ call.arg.amount < 0 => (~call.ret.same /\ call.ret.seq = <<>>)
       /\ call.arg.amount >= rowsOf(data, columns) => call.ret.same

\* The sequence s is row k of the matrix.
IsRow(s, k) == s = RowAt(data, columns, k * columns)

\* C19: on a matrix with at least one row, MaxSum() returns a row whose sum is
\* >= the sum of every row, the earliest such row on ties, and MinSum() a row
\* whose sum is <= the sum of every row; the last row counts too.
C19_MaxSumMinSumAreExtremes ==
    LET r == IF columns = 0 THEN 0 ELSE rowsOf(data, columns)
        S(i) == Sum(RowAt(data, columns, i * columns))
    IN  /\ (call.op = "MaxSum" /\ r >= 1)
           => \E k \in 0..(r - 1) :
                  /\ IsRow(call.ret.seq, k)
                  /\ \A i \in 0..(r - 1) : S(i) <= S(k)
                  /\ \A i \in 0..(k - 1) : S(i) < S(k)
        /\ (call.op = "MinSum" /\ r >= 1)
           => \E k \in 0..(r - 1) :
                  /\ IsRow(call.ret.seq, k)
                  /\ \A i \in 0..(r - 1) : S(k) <= S(i)

\* The number of rows of the matrix equal to the sequence s.
Occurrences(s) ==
    Cardinality({i \in 0..(rowsOf(data, columns) - 1) : IsRow(s, i)})

\* C20: on a matrix with at least one row, Mode() returns a row of the matrix
\* such that no other row value occurs in more rows.
C20_ModeIsMostFrequentRow ==
    (call.op = "Mode" /\ columns >= 1 /\ rowsOf(data, columns) >= 1)
    => /\ call.err = "nil"
       /\ Occurrences(call.ret.seq) >= 1
       /\ \A i \in 0..(rowsOf(data, columns) - 1) :
              Occurrences(RowAt(data, columns, i * columns)) <= Occurrences(call.ret.seq)

\* The value last stored at (i, j) by Set or Increment, 0.0 when neither has
\* ever been called with (i, j).
LastStored(i, j) == MapGet(stored, <<i, j>>)

\* The columns of row i that Set or Increment were called with.
Written(i) == {j \in 0..MaxIdx : <<i, j>> \in DOMAIN stored}

\* C13: after any sequence of Set, Increment and Get on a sparse matrix,
\* Get(i, j) does not fail and returns the value last stored at (i, j), 0.0
\* when (i, j) was never written; and Get changes nothing: C and the stored
\* rows and values are the same, and no row is made for an untouched row.
C13_GetReadsLastStored ==
    /\ \A i \in SIdx, j \in SIdx : Lookup(Data, i, j) = LastStored(i, j)
    /\ scall.op = "Get"
       => /\ scall.err = "nil"
          /\ scall.ret = LastStored(scall.i, scall.j)
          /\ Data = scall.pre.Data
          /\ C = scall.pre.C

\* A Get that returns a value >= 1 from a row that holds two written cells.
W13_GetAfterWrites ==
    /\ scall.op = "Get"
    /\ scall.ret >= 1
    /\ Cardinality(Written(scall.i)) = 2

\* C14: Increment(i, j) makes Get(i, j) one more than it was (1.0 at a
\* coordinate never set) and leaves every other coordinate as it was.
C14_IncrementAddsOne ==
    scall.op = "Increment"
    => /\ Lookup(Data, scall.i, scall.j) = Lookup(scall.pre.Data, scall.i, scall.j) + 1
       /\ \A i \in SIdx, j \in SIdx :
              <<i, j>> # <<scall.i, scall.j>>
              => Lookup(Data, i, j) = Lookup(scall.pre.Data, i, j)

\* An Increment of a cell that already holds a value >= 1, another cell of
\* the same row holding a value too.
W14_SecondIncrement ==
    /\ scall.op = "Increment"
    /\ Lookup(scall.pre.Data, scall.i, scall.j) >= 1
    /\ \E j \in Written(scall.i) : j # scall.j /\ Lookup(Data, scall.i, j) >= 1

\* The sum of the values stored in the columns S of row i.
RECURSIVE StoredSum(_, _)
StoredSum(i, S) ==
    IF S = {} THEN 0
    ELSE LET j == CHOOSE x \in S : TRUE IN LastStored(i, j) + StoredSum(i, S \ {j})

\* C15: GetRow(i) returns the row-index error exactly when row i was never
\* written by Set or Increment; otherwise it returns exactly one (column,
\* value) pair for each column written in row i, the value being Get(i,
\* column), so that Sum() of the result is the sum of the row's stored values.
C15_GetRowListsWrittenColumns ==
    scall.op = "GetRow"
    => IF Written(scall.i) = {}
       THEN scall.err = "ErrRowIndex"
       ELSE /\ scall.err = "nil"
            /\ Len(scall.row) = Cardinality(Written(scall.i))
            /\ {scall.row[k].Column : k \in DOMAIN scall.row} = Written(scall.i)
            /\ \A k \in DOMAIN scall.row :
                   scall.row[k].Value = Lookup(Data, scall.i, scall.row[k].Column)
            /\ ColumnValuesSum(scall.row) = StoredSum(scall.i, Written(scall.i))

\* A GetRow of a row with two columns written, one of them holding 0.
W15_RowOfTwoPairs ==
    /\ scall.op = "GetRow"
    /\ Len(scall.row) = 2
    /\ \E k \in DOMAIN scall.row : scall.row[k].Value = 0
    /\ ColumnValuesSum(scall.row) >= 1

\* The greatest of a finite nonempty set of integers.
Greatest(S) == CHOOSE x \in S : \A y \in S : y <= x

\* C18: after any sequence of Set and Increment on a matrix made by
\* NewSparse, Columns() is the greatest column index ever passed to Set or
\* Increment (0 when none exceeded 0), it never decreases, and every stored
\* column index is <= Columns().
C18_ColumnsIsHighWaterMark ==
    /\ C = Greatest({0} \cup {ij[2] : ij \in DOMAIN stored})
    /\ scall.op \notin {"idle", "NewSparse"} => C >= scall.pre.C
    /\ \A i \in DOMAIN Data : \A j \in DOMAIN Data[i] : j <= C
    /\ scall.op = "Columns" => scall.ret = C

\* A write to a column below the greatest one written before.
W18_WriteBelowColumns ==
    /\ scall.op \in {"Set", "Increment"}
    /\ scall.pre.C >= 1
    /\ scall.j < scall.pre.C

====
